---- MODULE Spec2Model ----
(***************************************************************************)
(* A model of the THORChain Ledger driver (src/src/index.ts and            *)
(* src/src/helper.ts): the path/HRP serializers, the chunked SIGN          *)
(* transfer, the version dispatch and the response decoders.               *)
(*                                                                         *)
(* Buffers are sequences of bytes (0..255).  The code indexes buffers from *)
(* 0; the model's sequences start at 1, so code index k is element k+1.    *)
(* An unsigned 32-bit number is a record [hi, lo] of its two 16-bit        *)
(* halves (value = hi * 65536 + lo): TLC's integers are 32-bit signed and  *)
(* cannot hold 0x80000000 + path[i].                                       *)
(*                                                                         *)
(* Every "await transport.send(...)" is a suspension point: one action     *)
(* runs the code from one await to the next (or to the return/throw).      *)
(***************************************************************************)
EXTENDS Integers, Sequences, FiniteSets, TLC

VARIABLES
    pc,              \* where the running operation is suspended
    op,              \* the operation called and its arguments
    trace,           \* commands given to the transport and its reactions, in order
    outcome,         \* what the operation returned or threw
    serializedPath,  \* publicKey: const serializedPath (index.ts:218)
    chunks,          \* sign: const chunks (index.ts:296)
    i,               \* sign: the loop variable i (index.ts:304); 0 during call #1
    result,          \* sign: let result (index.ts:298), <<>> before call #1 returned
    fnIn,            \* input of the pure function under check (SpecPath, SpecChunks)
    fnOut            \* its output

vars == <<pc, op, trace, outcome, serializedPath, chunks, i, result, fnIn, fnOut>>

(***************************************************************************)
(* Bounds of the model.                                                    *)
(***************************************************************************)
\* sign is called with messages of up to MaxMsgChunks full chunks
MaxMsgChunks == 4
\* signGetChunks alone is applied to every message length 0..MaxMsgLen
MaxMsgLen == 302

(***************************************************************************)
(* Constants of ./common (imported at index.ts:23-34, helper.ts:2-10).     *)
(***************************************************************************)
CHUNK_SIZE == 150
NoErrors == 36864                 \* 0x9000
DataIsInvalid == 27012            \* 0x6984
BadKeyHandle == 27264             \* 0x6A80
SignVerifyError == 28417          \* 0x6F01
ExecutionError == 25600           \* 0x6400
AppDoesNotSeemToBeOpen == 28160   \* 0x6E00
TransactionRejected == 27014      \* 0x6986
HPRInvalid == 5

PAYLOAD_TYPE_INIT == "INIT"
PAYLOAD_TYPE_ADD == "ADD"
PAYLOAD_TYPE_LAST == "LAST"

(***************************************************************************)
(* Buffers.                                                                *)
(***************************************************************************)
Min(a, b) == IF a < b THEN a ELSE b
Max(a, b) == IF a > b THEN a ELSE b

\* Buffer.slice(start, end): negative offsets count from the end, both are
\* clamped to the buffer, an empty range gives an empty buffer.
BufSlice(buf, start, end) ==
    LET n == Len(buf)
        s == IF start < 0 THEN Max(n + start, 0) ELSE Min(start, n)
        e == IF end < 0 THEN Max(n + end, 0) ELSE Min(end, n)
    IN  IF e <= s THEN <<>> ELSE SubSeq(buf, s + 1, e)

\* buf[k]: undefined (-1 here) beyond the end
ByteAt(buf, k) == IF k >= 0 /\ k < Len(buf) THEN buf[k + 1] ELSE -1

\* buf.toString("ascii"): the highest bit of each byte is unset
ToAscii(buf) == [k \in 1..Len(buf) |-> buf[k] % 128]

\* const errorCodeData = response.slice(-2);
\* returnCode = errorCodeData[0] * 256 + errorCodeData[1]
ReturnCode(response) ==
    LET errorCodeData == BufSlice(response, -2, Len(response))
    IN  ByteAt(errorCodeData, 0) * 256 + ByteAt(errorCodeData, 1)

RECURSIVE Concat(_)
Concat(bufs) == IF bufs = <<>> THEN <<>> ELSE Head(bufs) \o Concat(Tail(bufs))

(***************************************************************************)
(* Returned values and thrown errors.                                      *)
(***************************************************************************)
Ok(v) == [ok |-> TRUE, val |-> v]
Throw(e) == [ok |-> FALSE, err |-> e]

\* an error message: the text, and the diagnostic payload appended as " : ..."
Msg(text) == [text |-> text, appended |-> FALSE, diag |-> <<>>]
MsgWith(text, diag) == [text |-> text, appended |-> TRUE, diag |-> diag]

Err(cls, code, message) == [cls |-> cls, code |-> code, message |-> message]
LedgerError(code, message) == Err("LedgerError", code, message)

errorCodeToString(code) ==
    CASE code = NoErrors -> "No errors"
      [] code = DataIsInvalid -> "Data is invalid"
      [] code = BadKeyHandle -> "Bad key handle"
      [] code = SignVerifyError -> "Sign/verify error"
      [] code = ExecutionError -> "Execution Error"
      [] code = AppDoesNotSeemToBeOpen -> "App does not seem to be open"
      [] code = TransactionRejected -> "Transaction rejected"
      [] code = HPRInvalid -> "HRP invalid"
      [] OTHER -> "Unknown error"

\* wraps whatever was thrown into the error taxonomy; a LedgerError stays as it is
ledgerErrorFromResponse(e) ==
    CASE e.cls = "LedgerError" -> e
      [] e.cls = "TransportStatusError" ->
            LedgerError(e.code, Msg(errorCodeToString(e.code)))
      [] OTHER -> LedgerError(0, e.message)

(***************************************************************************)
(* The transport (@ledgerhq/hw-transport, an external collaborator):       *)
(* send(cla, ins, p1, p2, data, statusList) gives the command to the       *)
(* device and returns its response, or throws when the exchange fails or   *)
(* when the response's status word is not in statusList.                   *)
(***************************************************************************)
Cmd(ins, p1, p2, data) == [ev |-> "cmd", ins |-> ins, p1 |-> p1, p2 |-> p2, data |-> data]
Rsp(ins, bytes) == [ev |-> "rsp", ins |-> ins, p1 |-> "", p2 |-> 0, data |-> bytes]
Fail(ins) == [ev |-> "fail", ins |-> ins, p1 |-> "", p2 |-> 0, data |-> <<>>]

IoError == [kind |-> "io_error", bytes |-> <<>>]
Response(bytes) == [kind |-> "response", bytes |-> bytes]

ReactionEvent(ins, r) == IF r.kind = "io_error" THEN Fail(ins) ELSE Rsp(ins, r.bytes)

StatusBytes(code) == <<code \div 256, code % 256>>

TransportSend(r, statusList) ==
    IF r.kind = "io_error"
    THEN Throw(Err("TransportError", 0, Msg("transport failure")))
    ELSE IF ReturnCode(r.bytes) \notin statusList
         THEN Throw(Err("TransportStatusError", ReturnCode(r.bytes),
                        Msg("Ledger device: status")))
         ELSE Ok(r.bytes)

\* what the device may answer to GET_VERSION
VersionBody(major, locked) == <<0, major, 0, 0, locked, 51, 0, 0, 4>>
VersionReactions ==
    { IoError,
      Response(VersionBody(2, 0) \o StatusBytes(NoErrors)),
      Response(VersionBody(1, 0) \o StatusBytes(NoErrors)),
      Response(StatusBytes(NoErrors)),
      Response(VersionBody(2, 1) \o StatusBytes(AppDoesNotSeemToBeOpen)),
      Response(StatusBytes(AppDoesNotSeemToBeOpen)) }

\* what the device may answer to SIGN_SECP256K1
SignPayloads == { <<>>, <<48, 197>> }
SignStatuses == { NoErrors, DataIsInvalid, BadKeyHandle, SignVerifyError, TransactionRejected }
SignReactions ==
    { IoError } \cup { Response(p \o StatusBytes(s)) : p \in SignPayloads, s \in SignStatuses }

\* what the device may answer to GET_ADDR_SECP256K1
CompressedPk == [k \in 1..33 |-> (k * 5) % 256]
AddrReactions ==
    { IoError,
      Response(CompressedPk \o <<116, 104, 111, 114, 49>> \o StatusBytes(NoErrors)),
      Response(StatusBytes(TransactionRejected)) }

(***************************************************************************)
(* Path/HRP serializers.                                                   *)
(***************************************************************************)
U32(n) == [hi |-> n \div 65536, lo |-> n % 65536]

\* 0x80000000 + p, an exact sum of two doubles: it may exceed 0xFFFFFFFF
Harden(p) == [hi |-> p.hi + 32768, lo |-> p.lo]

\* the four bytes buf.writeUInt32LE puts for a value within 0..0xFFFFFFFF
LEBytesMutBE(v) == <<v.hi \div 256, v.hi % 256, v.lo \div 256, v.lo % 256>>
LEBytes(v) == <<v.lo % 256, v.lo \div 256, v.hi % 256, v.hi \div 256>>

\* buf.writeUInt32LE(value, offset).  A value above 0xFFFFFFFF is outside what
\* the call is defined for: the Buffer implementation either rejects it with a
\* RangeError (rangeChecked) or stores its low 32 bits.
writeUInt32LE(v, rangeChecked) ==
    IF v.hi < 65536
    THEN Ok(LEBytes(v))
    ELSE IF rangeChecked
         THEN Throw(Err("RangeError", 0, Msg("value is out of range")))
         ELSE Ok(LEBytes([hi |-> v.hi % 65536, lo |-> v.lo]))

serializePathv2(path, rangeChecked) ==
    IF Len(path) # 5
    THEN Throw(Err("Error", 0, Msg("Invalid path.")))
    ELSE LET w == << writeUInt32LE(Harden(path[1]), rangeChecked),
                     writeUInt32LE(Harden(path[2]), rangeChecked),
                     writeUInt32LE(Harden(path[3]), rangeChecked),
                     writeUInt32LE(path[4], rangeChecked),
                     writeUInt32LE(path[5], rangeChecked) >>
         IN  IF \E k \in 1..5 : ~w[k].ok
             THEN w[CHOOSE k \in 1..5 : ~w[k].ok /\ \A j \in 1..(k - 1) : w[j].ok]
             ELSE Ok(w[1].val \o w[2].val \o w[3].val \o w[4].val \o w[5].val)

\* an HRP is [isNull, str]: null/undefined, or a string of character codes
NullHrp == [isNull |-> TRUE, str |-> <<>>]
Hrp(str) == [isNull |-> FALSE, str |-> str]
HrpOfLen(n) == Hrp([k \in 1..n |-> 97 + (k % 26)])
Thor == Hrp(<<116, 104, 111, 114>>)

\* buf.write(hrp, 1) encodes the string as UTF-8 and writes whole characters
\* only, as many as fit in the hrp.length bytes that Buffer.alloc left after
\* the length byte; what is not written stays 0
Utf8Char(c) == IF c < 128 THEN <<c>> ELSE <<192 + (c \div 64), 128 + (c % 64)>>

RECURSIVE Utf8Write(_, _)
Utf8Write(str, space) ==
    IF str = <<>> \/ Len(Utf8Char(Head(str))) > space
    THEN <<>>
    ELSE Utf8Char(Head(str)) \o Utf8Write(Tail(str), space - Len(Utf8Char(Head(str))))

Zeros(n) == [k \in 1..n |-> 0]

serializeHRPMutBounds(hrp) ==
    IF hrp.isNull \/ Len(hrp.str) <= 3 \/ Len(hrp.str) > 83
    THEN Throw(LedgerError(HPRInvalid, Msg(errorCodeToString(HPRInvalid))))
    ELSE LET written == Utf8Write(hrp.str, Len(hrp.str))
         IN  Ok(<<Len(hrp.str)>> \o written \o Zeros(Len(hrp.str) - Len(written)))

serializeHRP(hrp) ==
    IF hrp.isNull \/ Len(hrp.str) < 3 \/ Len(hrp.str) > 83
    THEN Throw(LedgerError(HPRInvalid, Msg(errorCodeToString(HPRInvalid))))
    ELSE LET written == Utf8Write(hrp.str, Len(hrp.str))
         IN  Ok(<<Len(hrp.str)>> \o written \o Zeros(Len(hrp.str) - Len(written)))

(***************************************************************************)
(* getVersion and the version dispatch.                                    *)
(***************************************************************************)
\* transport.send(CLA, INS.GET_VERSION, 0, 0): no statusList is passed, so the
\* transport accepts NoErrors only
VersionStatusListMutOpen == {NoErrors, AppDoesNotSeemToBeOpen}
VersionStatusList == {NoErrors}

\* (response[5] << 24) + (response[6] << 16) + (response[7] << 8) + response[8],
\* where << works on signed 32-bit integers
Shl24(b) == IF b >= 128 THEN (b - 256) * 16777216 ELSE b * 16777216

\* Number.prototype.toString(16): a "-" for a negative number, then the hex
\* digits of the magnitude without leading zeros; a text is a sequence of
\* characters
HexChar(d) ==
    <<"0", "1", "2", "3", "4", "5", "6", "7", "8", "9", "a", "b", "c", "d", "e", "f">>[d + 1]

RECURSIVE HexDigits(_)
HexDigits(m) == IF m < 16 THEN <<HexChar(m)>> ELSE HexDigits(m \div 16) \o <<HexChar(m % 16)>>

ToString16(n) ==
    IF n >= 0
    THEN HexDigits(n)
    ELSE IF n % 16 = 0
         THEN <<"-">> \o HexDigits(-(n \div 16)) \o <<"0">>
         ELSE <<"-">> \o HexDigits(-n)

\* getVersion with a catch that answers a default version
getVersionMutDefault(sent) ==
    IF ~sent.ok
    THEN Ok([returnCode |-> NoErrors,
             errorMessage |-> errorCodeToString(NoErrors),
             testMode |-> FALSE, major |-> 2, minor |-> 0, patch |-> 0,
             deviceLocked |-> FALSE, targetId |-> ToString16(0)])
    ELSE LET response == sent.val
             returnCode == ReturnCode(response)
             targetId == IF Len(response) >= 9
                         THEN Shl24(response[6]) + response[7] * 65536
                              + response[8] * 256 + response[9]
                         ELSE 0
         IN  Ok([returnCode |-> returnCode,
                 errorMessage |-> errorCodeToString(returnCode),
                 testMode |-> ByteAt(response, 0) # 0,
                 major |-> ByteAt(response, 1),
                 minor |-> ByteAt(response, 2),
                 patch |-> ByteAt(response, 3),
                 deviceLocked |-> ByteAt(response, 4) = 1,
                 targetId |-> ToString16(targetId)])

getVersion(sent) ==
    IF ~sent.ok
    THEN Throw(ledgerErrorFromResponse(sent.err))
    ELSE LET response == sent.val
             returnCode == ReturnCode(response)
             targetId == IF Len(response) >= 9
                         THEN Shl24(response[6]) + response[7] * 65536
                              + response[8] * 256 + response[9]
                         ELSE 0
         IN  Ok([returnCode |-> returnCode,
                 errorMessage |-> errorCodeToString(returnCode),
                 testMode |-> ByteAt(response, 0) # 0,
                 major |-> ByteAt(response, 1),
                 minor |-> ByteAt(response, 2),
                 patch |-> ByteAt(response, 3),
                 deviceLocked |-> ByteAt(response, 4) = 1,
                 targetId |-> ToString16(targetId)])

UnsupportedVersion == LedgerError(ExecutionError, Msg("App Version is not supported"))

\* THORChainApp.serializePath after its await of getVersion
serializePath(version, path, rangeChecked) ==
    IF ~version.ok
    THEN version
    ELSE IF version.val.returnCode # NoErrors
         THEN Throw(LedgerError(version.val.returnCode, Msg(version.val.errorMessage)))
         ELSE IF version.val.major = 2
              THEN serializePathv2(path, rangeChecked)
              ELSE Throw(UnsupportedVersion)

(***************************************************************************)
(* The chunked transfer.                                                   *)
(***************************************************************************)
\* the loop of signGetChunks from offset k on (index.ts:99-105)
RECURSIVE ChunkLoop(_, _)
ChunkLoop(buffer, k) ==
    IF k < Len(buffer)
    THEN LET end == IF k > Len(buffer) THEN Len(buffer) ELSE k + CHUNK_SIZE
         IN  <<BufSlice(buffer, k, end)>> \o ChunkLoop(buffer, k + CHUNK_SIZE)
    ELSE <<>>

RECURSIVE ChunkLoopMutLe(_, _)
ChunkLoopMutLe(buffer, k) ==
    IF k <= Len(buffer)
    THEN LET end == IF k > Len(buffer) THEN Len(buffer) ELSE k + CHUNK_SIZE
         IN  <<BufSlice(buffer, k, end)>> \o ChunkLoopMutLe(buffer, k + CHUNK_SIZE)
    ELSE <<>>

\* THORChainApp.signGetChunks after its await of serializePath
signGetChunksMutLe(serialized, message) == <<serialized>> \o ChunkLoopMutLe(message, 0)
signGetChunks(serialized, message) == <<serialized>> \o ChunkLoop(message, 0)

\* the payload marker signSendChunkv2 picks
payloadTypeMutInitLast(chunkIdx, chunkNum) ==
    LET p0 == PAYLOAD_TYPE_ADD
        p1 == IF chunkIdx = chunkNum THEN PAYLOAD_TYPE_LAST ELSE p0
    IN  IF chunkIdx = 1 THEN PAYLOAD_TYPE_INIT ELSE p1
payloadType(chunkIdx, chunkNum) ==
    LET p0 == PAYLOAD_TYPE_ADD
        p1 == IF chunkIdx = 1 THEN PAYLOAD_TYPE_INIT ELSE p0
    IN  IF chunkIdx = chunkNum THEN PAYLOAD_TYPE_LAST ELSE p1

\* THORChainApp.signSendChunk after its await of getVersion, down to the
\* command signSendChunkv1 gives to the transport
signSendChunkMutAnyVersion(version, chunkIdx, chunkNum, chunk) ==
    Ok(Cmd("SIGN", payloadType(chunkIdx, chunkNum), 0, chunk))
signSendChunk(version, chunkIdx, chunkNum, chunk) ==
    IF version.major = 2
    THEN Ok(Cmd("SIGN", payloadType(chunkIdx, chunkNum), 0, chunk))
    ELSE Throw(UnsupportedVersion)

\* the status words signSendChunkv1 asks the transport to let through
SignStatusList == {NoErrors, DataIsInvalid, BadKeyHandle}

\* signSendChunkv1 after its await of transport.send
signSendChunkv1(sent) ==
    IF ~sent.ok
    THEN Throw(ledgerErrorFromResponse(sent.err))
    ELSE LET response == sent.val
             returnCode == ReturnCode(response)
             payload == BufSlice(response, 0, Len(response) - 2)
             errorMessage ==
                 IF returnCode = BadKeyHandle \/ returnCode = DataIsInvalid
                 THEN MsgWith(errorCodeToString(returnCode), ToAscii(payload))
                 ELSE Msg(errorCodeToString(returnCode))
         IN  IF Len(response) > 2
             THEN Ok([returnCode |-> returnCode, errorMessage |-> errorMessage,
                      signature |-> <<payload>>])
             ELSE Throw(ledgerErrorFromResponse(LedgerError(returnCode, errorMessage)))

\* the loop of sign (index.ts:297-310): the chunk each call carries, what sign
\* keeps of the value signSendChunk returned, and whether another call follows
chunkOfCallMutFirst(cs, iv) == cs[1]
chunkOfCall(cs, iv) == cs[1 + iv]

signResultMutNoSignature(iv, ret) ==
    [returnCode |-> ret.returnCode, errorMessage |-> ret.errorMessage,
     signature |-> <<>>]
signResult(iv, ret) ==
    IF iv = 0
    THEN [returnCode |-> ret.returnCode, errorMessage |-> ret.errorMessage,
          signature |-> <<>>]
    ELSE ret

signBreaks(iv, res) == iv > 0 /\ res.returnCode # NoErrors

signContinuesMutSkipLast(iv, res, chunkNum) ==
    ~signBreaks(iv, res) /\ iv + 2 < chunkNum
signContinues(iv, res, chunkNum) ==
    ~signBreaks(iv, res) /\ iv + 1 < chunkNum

\* the address decoders (index.ts:246-257, 271-282) and publicKeyv2
decodeAddress(response) ==
    [bech32_address |-> BufSlice(response, 33, -2),
     compressed_pk |-> BufSlice(response, 0, 33),
     returnCode |-> ReturnCode(response),
     errorMessage |-> Msg(errorCodeToString(ReturnCode(response)))]

publicKeyv2(sent) ==
    IF ~sent.ok
    THEN Throw(ledgerErrorFromResponse(sent.err))
    ELSE Ok([pk |-> "OBSOLETE PROPERTY",
             compressed_pk |-> BufSlice(sent.val, 0, 33),
             return_code |-> ReturnCode(sent.val),
             error_message |-> Msg(errorCodeToString(ReturnCode(sent.val)))])

(***************************************************************************)
(* deviceInfo (index.ts:163-214).                                          *)
(***************************************************************************)
\* Buffer.toString("hex"): two hex digits per byte
HexOfBytes(buf) ==
    [k \in 1..(2 * Len(buf)) |-> IF k % 2 = 1 THEN HexChar(buf[(k + 1) \div 2] \div 16)
                                               ELSE HexChar(buf[k \div 2] % 16)]

\* Buffer.toString(): UTF-8 decoding; a byte that starts no character decodes to
\* U+FFFD (the device's version strings are ASCII)
Utf8Text(buf) == [k \in 1..Len(buf) |-> IF buf[k] < 128 THEN buf[k] ELSE 65533]

\* what the device may answer to the dashboard's device-info command: when it
\* answers NoErrors the body is well formed (target id, then three
\* length-prefixed fields)
DeviceInfoBody(mcuVersion) ==
    <<49, 16, 0, 4>> \o <<3, 49, 46, 54>> \o <<4, 238, 0, 0, 0>>
        \o <<Len(mcuVersion)>> \o mcuVersion
McuVersions == { <<49, 46, 49, 49>>, <<49, 46, 49, 49, 0>> }
InsNotSupported == 27904   \* 0x6D00
DeviceInfoReactions ==
    { IoError,
      Response(StatusBytes(AppDoesNotSeemToBeOpen)),
      Response(<<1, 2>> \o StatusBytes(AppDoesNotSeemToBeOpen)),
      Response(<<49, 16, 0, 4, 200>> \o StatusBytes(AppDoesNotSeemToBeOpen)),
      Response(StatusBytes(InsNotSupported)) }
    \cup { Response(DeviceInfoBody(m) \o StatusBytes(s)) :
             m \in McuVersions, s \in {NoErrors, AppDoesNotSeemToBeOpen} }

DeviceInfoCmd == Cmd("DEVICE_INFO", "0", 0, <<>>)

DeviceInfoStatusListMutDefault == {NoErrors}
DeviceInfoStatusList == {NoErrors, AppDoesNotSeemToBeOpen}

DashboardOnly ==
    [return_code |-> 28160,
     error_message |-> "This command is only available in the Dashboard"]

\* the body of deviceInfo after its await of transport.send
deviceInfo(sent) ==
    IF ~sent.ok
    THEN Throw(ledgerErrorFromResponse(sent.err))
    ELSE LET response == sent.val
             returnCode == ReturnCode(response)
             targetId == HexOfBytes(BufSlice(response, 0, 4))
             secureElementVersionLen == ByteAt(response, 4)
             pos1 == 5
             seVersion == Utf8Text(BufSlice(response, pos1, pos1 + secureElementVersionLen))
             pos2 == pos1 + secureElementVersionLen
             flagsLen == ByteAt(response, pos2)
             pos3 == pos2 + 1
             flag == HexOfBytes(BufSlice(response, pos3, pos3 + flagsLen))
             pos4 == pos3 + flagsLen
             mcuVersionLen == ByteAt(response, pos4)
             pos5 == pos4 + 1
             tmp == IF ByteAt(response, pos5 + mcuVersionLen - 1) = 0 /\ mcuVersionLen > 0
                    THEN BufSlice(response, pos5, pos5 + mcuVersionLen - 1)
                    ELSE BufSlice(response, pos5, pos5 + mcuVersionLen)
         IN  IF returnCode = 28160
             THEN Ok(DashboardOnly)
             ELSE Ok([return_code |-> returnCode,
                      error_message |-> errorCodeToString(returnCode),
                      targetId |-> targetId,
                      seVersion |-> seVersion,
                      flag |-> flag,
                      mcuVersion |-> Utf8Text(tmp)])

(***************************************************************************)
(* The arguments the operations are called with.                           *)
(***************************************************************************)
ValidPath == <<U32(44), U32(931), U32(0), U32(0), U32(0)>>
Paths == { ValidPath,
           <<U32(44), U32(931), U32(0), U32(0)>>,
           <<U32(44), U32(931), U32(0), U32(0), U32(0), U32(1)>> }

Hrps == { Thor, NullHrp, HrpOfLen(2), HrpOfLen(3), HrpOfLen(83), HrpOfLen(84) }

MsgOfLen(n, seed) == [k \in 1..n |-> (k * 7 + seed) % 256]
MsgLens == {0, 1} \cup { k * CHUNK_SIZE : k \in 1..MaxMsgChunks }
                  \cup { k * CHUNK_SIZE + 1 : k \in 1..(MaxMsgChunks - 1) }
Messages == { MsgOfLen(n, 3) : n \in MsgLens }

NoOp == [kind |-> "none", path |-> <<>>, hrp |-> NullHrp, message |-> <<>>]
NoOutcome == [kind |-> "none"]
Returned(v) == [kind |-> "result", value |-> v]
Thrown(e) == [kind |-> "error", error |-> e]

GetVersionCmd == Cmd("GET_VERSION", "0", 0, <<>>)

Init ==
    /\ pc = "idle"
    /\ op = NoOp
    /\ trace = <<>>
    /\ outcome = NoOutcome
    /\ serializedPath = <<>>
    /\ chunks = <<>>
    /\ i = 0
    /\ result = <<>>
    /\ fnIn = <<>>
    /\ fnOut = <<>>

\* every operation starts with serializePath, which starts with getVersion:
\* the GET_VERSION command is given to the transport before anything else
Call(kind, path, hrp, message) ==
    /\ pc = "idle"
    /\ op' = [kind |-> kind, path |-> path, hrp |-> hrp, message |-> message]
    /\ trace' = <<GetVersionCmd>>
    /\ pc' = "serializePath"
    /\ UNCHANGED <<outcome, serializedPath, chunks, i, result, fnIn, fnOut>>

sign(path, message) == Call("sign", path, NullHrp, message)
getAddressAndPubKey(path, hrp) == Call("getAddressAndPubKey", path, hrp, <<>>)
showAddressAndPubKey(path, hrp) == Call("showAddressAndPubKey", path, hrp, <<>>)
publicKey(path) == Call("publicKey", path, NullHrp, <<>>)

\* the operation ends: it returns a value or throws
Finish(tr, out) ==
    /\ pc' = "done"
    /\ trace' = tr
    /\ outcome' = out

\* sign: signGetChunks resumes with the serialized path, builds the chunks, and
\* sign starts call #1, signSendChunk(1, chunks.length, chunks[0]), whose first
\* step is getVersion
signGetChunksResumes ==
    /\ pc = "serializePath"
    /\ op.kind = "sign"
    /\ \E r \in VersionReactions, rangeChecked \in BOOLEAN :
         LET sp == serializePath(getVersion(TransportSend(r, VersionStatusList)),
                                 op.path, rangeChecked)
             tr == Append(trace, ReactionEvent("GET_VERSION", r))
         IN  IF sp.ok
             THEN /\ chunks' = signGetChunks(sp.val, op.message)
                  /\ i' = 0
                  /\ trace' = Append(tr, GetVersionCmd)
                  /\ pc' = "signSendChunk"
                  /\ UNCHANGED <<outcome, result>>
             ELSE /\ Finish(tr, Thrown(sp.err))
                  /\ UNCHANGED <<chunks, i, result>>
    /\ UNCHANGED <<op, serializedPath, fnIn, fnOut>>

\* signSendChunk resumes with the version and dispatches to signSendChunkv2,
\* which gives the SIGN command to the transport
signSendChunkResumes ==
    /\ pc = "signSendChunk"
    /\ \E r \in VersionReactions :
         LET version == getVersion(TransportSend(r, VersionStatusList))
             tr == Append(trace, ReactionEvent("GET_VERSION", r))
             cmd == signSendChunk(version.val, 1 + i, Len(chunks), chunkOfCall(chunks, i))
         IN  IF ~version.ok
             THEN Finish(tr, Thrown(version.err))
             ELSE IF cmd.ok
                  THEN /\ trace' = Append(tr, cmd.val)
                       /\ pc' = "signSendChunkv1"
                       /\ UNCHANGED outcome
                  ELSE Finish(tr, Thrown(cmd.err))
    /\ UNCHANGED <<op, serializedPath, chunks, i, result, fnIn, fnOut>>

\* signSendChunkv1 resumes with the response; sign takes its result and either
\* goes on with the next chunk or returns (index.ts:297-316)
signSendChunkv1Resumes ==
    /\ pc = "signSendChunkv1"
    /\ \E r \in SignReactions :
         LET ret == signSendChunkv1(TransportSend(r, SignStatusList))
             tr == Append(trace, ReactionEvent("SIGN", r))
             res == signResult(i, ret.val)
             break == signBreaks(i, res)
         IN  IF ~ret.ok
             THEN /\ Finish(tr, Thrown(ret.err))
                  /\ UNCHANGED <<i, result>>
             ELSE IF signContinues(i, res, Len(chunks))
                  THEN /\ result' = <<res>>
                       /\ i' = i + 1
                       /\ trace' = Append(tr, GetVersionCmd)
                       /\ pc' = "signSendChunk"
                       /\ UNCHANGED outcome
                  ELSE /\ result' = <<res>>
                       /\ i' = IF break THEN i ELSE i + 1
                       /\ Finish(tr, Returned(res))
    /\ UNCHANGED <<op, serializedPath, chunks, fnIn, fnOut>>

\* getAddressAndPubKey / showAddressAndPubKey resume with the serialized path,
\* serialize the HRP and give the GET_ADDR command to the transport
addressResumes(kind, p1) ==
    /\ pc = "serializePath"
    /\ op.kind = kind
    /\ \E r \in VersionReactions, rangeChecked \in BOOLEAN :
         LET sp == serializePath(getVersion(TransportSend(r, VersionStatusList)),
                                 op.path, rangeChecked)
             tr == Append(trace, ReactionEvent("GET_VERSION", r))
             serializedHRP == serializeHRP(op.hrp)
         IN  IF ~sp.ok
             THEN Finish(tr, Thrown(sp.err))
             ELSE IF ~serializedHRP.ok
                  THEN Finish(tr, Thrown(serializedHRP.err))
                  ELSE /\ trace' = Append(tr, Cmd("GET_ADDR", p1, 0,
                                                  serializedHRP.val \o sp.val))
                       /\ pc' = "getAddr"
                       /\ UNCHANGED outcome
    /\ UNCHANGED <<op, serializedPath, chunks, i, result, fnIn, fnOut>>

getAddressAndPubKeyResumes == addressResumes("getAddressAndPubKey", "ONLY_RETRIEVE")
showAddressAndPubKeyResumes == addressResumes("showAddressAndPubKey", "SHOW_ADDRESS_IN_DEVICE")

\* the address query resumes with the response and decodes it; there is no
\* try/catch: what the transport throws is thrown as it is
addressReturns ==
    /\ pc = "getAddr"
    /\ \E r \in AddrReactions :
         LET sent == TransportSend(r, {NoErrors})
             tr == Append(trace, ReactionEvent("GET_ADDR", r))
         IN  IF sent.ok
             THEN Finish(tr, Returned(decodeAddress(sent.val)))
             ELSE Finish(tr, Thrown(sent.err))
    /\ UNCHANGED <<op, serializedPath, chunks, i, result, fnIn, fnOut>>

\* publicKey resumes with the serialized path and asks for the version again
publicKeyResumes ==
    /\ pc = "serializePath"
    /\ op.kind = "publicKey"
    /\ \E r \in VersionReactions, rangeChecked \in BOOLEAN :
         LET sp == serializePath(getVersion(TransportSend(r, VersionStatusList)),
                                 op.path, rangeChecked)
             tr == Append(trace, ReactionEvent("GET_VERSION", r))
         IN  IF sp.ok
             THEN /\ serializedPath' = sp.val
                  /\ trace' = Append(tr, GetVersionCmd)
                  /\ pc' = "publicKey"
                  /\ UNCHANGED outcome
             ELSE /\ Finish(tr, Thrown(ledgerErrorFromResponse(sp.err)))
                  /\ UNCHANGED serializedPath
    /\ UNCHANGED <<op, chunks, i, result, fnIn, fnOut>>

\* publicKey resumes with the second version and dispatches to publicKeyv2
publicKeyDispatches ==
    /\ pc = "publicKey"
    /\ \E r \in VersionReactions :
         LET version == getVersion(TransportSend(r, VersionStatusList))
             tr == Append(trace, ReactionEvent("GET_VERSION", r))
         IN  IF ~version.ok
             THEN Finish(tr, Thrown(ledgerErrorFromResponse(version.err)))
             ELSE IF version.val.major = 2
                  THEN /\ trace' = Append(tr, Cmd("GET_ADDR", "0", 0,
                                           serializeHRP(Thor).val \o serializedPath))
                       /\ pc' = "publicKeyv2"
                       /\ UNCHANGED outcome
                  ELSE Finish(tr, Thrown(ledgerErrorFromResponse(UnsupportedVersion)))
    /\ UNCHANGED <<op, serializedPath, chunks, i, result, fnIn, fnOut>>

publicKeyv2Returns ==
    /\ pc = "publicKeyv2"
    /\ \E r \in AddrReactions :
         LET ret == publicKeyv2(TransportSend(r, {NoErrors}))
             tr == Append(trace, ReactionEvent("GET_ADDR", r))
         IN  IF ret.ok
             THEN Finish(tr, Returned(ret.val))
             ELSE Finish(tr, Thrown(ledgerErrorFromResponse(ret.err)))
    /\ UNCHANGED <<op, serializedPath, chunks, i, result, fnIn, fnOut>>

\* deviceInfo gives its command to the transport (index.ts:165-168)
deviceInfoCalls ==
    /\ pc = "idle"
    /\ op' = [kind |-> "deviceInfo", path |-> <<>>, hrp |-> NullHrp, message |-> <<>>]
    /\ trace' = <<DeviceInfoCmd>>
    /\ pc' = "deviceInfo"
    /\ UNCHANGED <<outcome, serializedPath, chunks, i, result, fnIn, fnOut>>

\* deviceInfo resumes with the response, or with what the transport threw
deviceInfoReturns ==
    /\ pc = "deviceInfo"
    /\ \E r \in DeviceInfoReactions :
         LET ret == deviceInfo(TransportSend(r, DeviceInfoStatusList))
             tr == Append(trace, ReactionEvent("DEVICE_INFO", r))
         IN  Finish(tr, IF ret.ok THEN Returned(ret.val) ELSE Thrown(ret.err))
    /\ UNCHANGED <<op, serializedPath, chunks, i, result, fnIn, fnOut>>

Next ==
    \/ \E path \in Paths, message \in Messages : sign(path, message)
    \/ \E path \in Paths, hrp \in Hrps : getAddressAndPubKey(path, hrp)
    \/ \E path \in Paths, hrp \in Hrps : showAddressAndPubKey(path, hrp)
    \/ \E path \in Paths : publicKey(path)
    \/ signGetChunksResumes
    \/ signSendChunkResumes
    \/ signSendChunkv1Resumes
    \/ getAddressAndPubKeyResumes
    \/ showAddressAndPubKeyResumes
    \/ addressReturns
    \/ publicKeyResumes
    \/ publicKeyDispatches
    \/ publicKeyv2Returns
    \/ deviceInfoCalls
    \/ deviceInfoReturns

Spec == Init /\ [][Next]_vars

\* every transport call returns or fails: an operation that awaits the
\* transport is resumed
Resumes ==
    \/ signGetChunksResumes
    \/ signSendChunkResumes
    \/ signSendChunkv1Resumes
    \/ getAddressAndPubKeyResumes
    \/ showAddressAndPubKeyResumes
    \/ addressReturns
    \/ publicKeyResumes
    \/ publicKeyDispatches
    \/ publicKeyv2Returns
    \/ deviceInfoReturns

SpecLive == Init /\ [][Next]_vars /\ WF_vars(Resumes)

(***************************************************************************)
(* The pure functions, applied to inputs drawn by Init.                    *)
(***************************************************************************)
PathWords == { U32(0), U32(44), U32(931), [hi |-> 32767, lo |-> 65535],
               [hi |-> 32768, lo |-> 0], [hi |-> 65535, lo |-> 65535] }
PathInputs == [1..5 -> PathWords] \cup Paths \cup { <<>> }

FnInit(kind, inputs) ==
    /\ pc = "idle"
    /\ op = [kind |-> kind, path |-> <<>>, hrp |-> NullHrp, message |-> <<>>]
    /\ trace = <<>>
    /\ outcome = NoOutcome
    /\ serializedPath = <<>>
    /\ chunks = <<>>
    /\ i = 0
    /\ result = <<>>
    /\ fnIn \in inputs
    /\ fnOut = <<>>

InitPath == FnInit("serializePathv2", PathInputs)

ApplySerializePathv2 ==
    /\ pc = "idle"
    /\ \E rangeChecked \in BOOLEAN : fnOut' = serializePathv2(fnIn, rangeChecked)
    /\ pc' = "done"
    /\ UNCHANGED <<op, trace, outcome, serializedPath, chunks, i, result, fnIn>>

SpecPath == InitPath /\ [][ApplySerializePathv2]_vars

InitChunks == FnInit("signGetChunks", { MsgOfLen(n, 3) : n \in 0..MaxMsgLen })

ApplySignGetChunks ==
    /\ pc = "idle"
    /\ fnOut' = signGetChunks(serializePathv2(ValidPath, TRUE).val, fnIn)
    /\ pc' = "done"
    /\ UNCHANGED <<op, trace, outcome, serializedPath, chunks, i, result, fnIn>>

SpecChunks == InitChunks /\ [][ApplySignGetChunks]_vars

\* HRPs of every length around the two limits, plain ASCII and with one
\* non-ASCII character (233) at the front or at the end
MaxHrpLen == 85
WithChar(str, pos, c) == [k \in 1..Len(str) |-> IF k = pos THEN c ELSE str[k]]
HrpInputs == { NullHrp }
             \cup { HrpOfLen(n) : n \in 0..MaxHrpLen }
             \cup { Hrp(WithChar(HrpOfLen(n).str, 1, 233)) : n \in 1..MaxHrpLen }
             \cup { Hrp(WithChar(HrpOfLen(n).str, n, 233)) : n \in 1..MaxHrpLen }

InitHrp == FnInit("serializeHRP", HrpInputs)

ApplySerializeHRP ==
    /\ pc = "idle"
    /\ fnOut' = serializeHRP(fnIn)
    /\ pc' = "done"
    /\ UNCHANGED <<op, trace, outcome, serializedPath, chunks, i, result, fnIn>>

SpecHrp == InitHrp /\ [][ApplySerializeHRP]_vars

\* version responses of every length from 2 to 11: the NoErrors status after
\* a prefix of the 5 header bytes and 4 target id bytes
TargetBytes == {0, 1, 127, 128, 255}
VersionBodies == { <<0, 2, 0, 0, 1>> \o t : t \in [1..4 -> TargetBytes] }
VersionInputs ==
    { SubSeq(b, 1, n) \o StatusBytes(NoErrors) : b \in VersionBodies, n \in 0..9 }

InitVersion == FnInit("getVersion", VersionInputs)

ApplyGetVersion ==
    /\ pc = "idle"
    /\ fnOut' = getVersion(TransportSend(Response(fnIn), VersionStatusList))
    /\ pc' = "done"
    /\ UNCHANGED <<op, trace, outcome, serializedPath, chunks, i, result, fnIn>>

SpecVersion == InitVersion /\ [][ApplyGetVersion]_vars

(***************************************************************************)
(* What the trace of an operation shows.                                   *)
(***************************************************************************)
IsCmd(k, ins) == trace[k].ev = "cmd" /\ trace[k].ins = ins
IsRsp(k, ins) == trace[k].ev = "rsp" /\ trace[k].ins = ins
RspStatus(k) == ReturnCode(trace[k].data)
RspPayload(k) == BufSlice(trace[k].data, 0, Len(trace[k].data) - 2)
Events == 1..Len(trace)
SignCmds == { k \in Events : IsCmd(k, "SIGN") }
\* the payload markers of the SIGN commands sent, in order
IsSignCmd(e) == e.ev = "cmd" /\ e.ins = "SIGN"
Markers == LET c == SelectSeq(trace, IsSignCmd) IN [k \in 1..Len(c) |-> c[k].p1]
ErrorStatuses == {BadKeyHandle, DataIsInvalid, SignVerifyError}
Signing == op.kind = "sign"

(***************************************************************************)
(* The claims.                                                             *)
(***************************************************************************)

\* C1: in a sign operation, once the response to a chunk (the path chunk of
\* call #1 included) carries a status other than NoErrors, no further SIGN
\* command is sent.
C1_NoSignAfterErrorStatus ==
    Signing =>
        \A k \in Events :
            (IsRsp(k, "SIGN") /\ RspStatus(k) # NoErrors)
                => \A j \in Events : j > k => ~IsCmd(j, "SIGN")

\* C2: the result sign returns carries a signature only when the final chunk
\* was sent and its response had status NoErrors with a non-empty payload.
C2_SignatureOnlyOnFinalSuccess ==
    (Signing /\ pc = "done" /\ outcome.kind = "result"
             /\ outcome.value.signature # <<>>)
        => /\ Cardinality(SignCmds) = Len(chunks)
           /\ IsRsp(Len(trace), "SIGN")
           /\ RspStatus(Len(trace)) = NoErrors
           /\ RspPayload(Len(trace)) # <<>>

\* C3 (as stated): with totalCount = 1 and index = 1 the SIGN command carries
\* the marker INIT; sign with an empty message reaches this case.
C3_SingleChunkIsInit ==
    /\ (Signing /\ chunks # <<>> /\ op.message = <<>>) => Len(chunks) = 1
    /\ (Signing /\ Len(chunks) = 1)
           => \A k \in SignCmds : trace[k].p1 = PAYLOAD_TYPE_INIT

\* C3 (amended): with totalCount = 1 and index = 1 the SIGN command carries
\* the marker LAST, not INIT (the LAST test comes after the INIT test and
\* overrides it); sign with an empty message reaches this case.
C3_SingleChunkIsLast ==
    /\ (Signing /\ chunks # <<>> /\ op.message = <<>>) => Len(chunks) = 1
    /\ (Signing /\ Len(chunks) = 1)
           => \A k \in SignCmds : trace[k].p1 = PAYLOAD_TYPE_LAST

C3_Witness ==
    /\ Signing /\ op.message = <<>> /\ Len(chunks) = 1 /\ i = 0
    /\ SignCmds # {}

\* C4: no SIGN or GET_ADDR command is sent unless a GET_VERSION response with
\* status NoErrors was received earlier in the operation, and a GET_VERSION
\* response with any other status ends the operation with an error: nothing
\* follows it, also when it answers the query made before a chunk send.
C4_VersionGate ==
    /\ \A k \in Events :
          (IsCmd(k, "SIGN") \/ IsCmd(k, "GET_ADDR"))
              => \E j \in Events :
                    j < k /\ IsRsp(j, "GET_VERSION") /\ RspStatus(j) = NoErrors
    /\ \A k \in Events :
          (IsRsp(k, "GET_VERSION") /\ RspStatus(k) # NoErrors)
              => k = Len(trace) /\ pc = "done" /\ outcome.kind = "error"

C4_Witness ==
    /\ Signing /\ pc = "done" /\ outcome.kind = "error"
    /\ SignCmds # {}
    /\ IsRsp(Len(trace), "GET_VERSION")
    /\ RspStatus(Len(trace)) # NoErrors
    /\ ByteAt(trace[Len(trace)].data, 1) = 2

BadArguments ==
    /\ op.kind \in {"sign", "getAddressAndPubKey", "showAddressAndPubKey", "publicKey"}
    /\ \/ Len(op.path) # 5
       \/ /\ op.kind \in {"getAddressAndPubKey", "showAddressAndPubKey"}
          /\ (op.hrp.isNull \/ Len(op.hrp.str) < 3 \/ Len(op.hrp.str) > 83)
ValidationError(e) ==
    \/ e.message.text = "Invalid path."
    \/ e.code = HPRInvalid

\* C5: called with a path whose length is not 5, or an address query with an
\* HRP that is null or of a length outside 3..83, the operation fails with a
\* validation error and the transport has received no command at all.
C5_ValidationBeforeTransport ==
    BadArguments
        => /\ \A k \in Events : trace[k].ev # "cmd"
           /\ pc = "done" => (outcome.kind = "error" /\ ValidationError(outcome.error))

\* C6: a chunk send whose response has status BadKeyHandle, DataIsInvalid or
\* SignVerifyError raises an error whose message is the status text followed
\* by the ASCII payload, whatever the payload length, and never returns a
\* result (so sign never holds or returns such a status as a result).
C6_ErrorStatusRaises ==
    /\ result # <<>> => result[1].returnCode \notin ErrorStatuses
    /\ (Signing /\ pc = "done" /\ trace # <<>> /\ IsRsp(Len(trace), "SIGN")
               /\ RspStatus(Len(trace)) \in ErrorStatuses)
          => /\ outcome.kind = "error"
             /\ outcome.error.message =
                    MsgWith(errorCodeToString(RspStatus(Len(trace))),
                            ToAscii(RspPayload(Len(trace))))

CeilDiv(a, b) == (a + b - 1) \div b

\* C7: for a message of length L and chunk size C = 150, signGetChunks returns
\* 1 + ceil(L/C) chunks; chunk 0 is the 20-byte serialized path, every later
\* chunk has 1..C bytes, and chunks 1..N concatenated are the message.
C7_ChunksRebuildMessage ==
    (op.kind = "signGetChunks" /\ pc = "done")
        => /\ Len(fnOut) = 1 + CeilDiv(Len(fnIn), 150)
           /\ fnOut[1] = serializePathv2(ValidPath, TRUE).val
           /\ Len(fnOut[1]) = 20
           /\ \A k \in 2..Len(fnOut) : Len(fnOut[k]) >= 1 /\ Len(fnOut[k]) <= 150
           /\ Concat(Tail(fnOut)) = fnIn

C7_Witness ==
    /\ op.kind = "signGetChunks" /\ pc = "done"
    /\ Len(fnIn) = 301
    /\ Len(fnOut) = 4
    /\ Len(fnOut[4]) = 1

\* C8: a GET_VERSION response that reports a major version other than 2 makes
\* the operation fail with the unsupported-version error; no SIGN or GET_ADDR
\* command (nothing at all) is sent after it.
C8_UnsupportedMajorFails ==
    \A k \in Events :
        (IsRsp(k, "GET_VERSION") /\ RspStatus(k) = NoErrors
                                 /\ ByteAt(trace[k].data, 1) # 2)
            => /\ k = Len(trace)
               /\ pc = "done"
               /\ outcome.kind = "error"
               /\ outcome.error = UnsupportedVersion

C8_Witness ==
    /\ Signing /\ pc = "done"
    /\ SignCmds # {}
    /\ IsRsp(Len(trace), "GET_VERSION")
    /\ RspStatus(Len(trace)) = NoErrors
    /\ ByteAt(trace[Len(trace)].data, 1) = 1
    /\ outcome.kind = "error"

AllResponsesNoErrors ==
    \A k \in Events :
        /\ trace[k].ev # "fail"
        /\ trace[k].ev = "rsp" => RspStatus(k) = NoErrors
        /\ IsRsp(k, "GET_VERSION") => ByteAt(trace[k].data, 1) = 2
ExpectedMarkers(n) ==
    [k \in 1..n |-> IF k = n THEN PAYLOAD_TYPE_LAST
                    ELSE IF k = 1 THEN PAYLOAD_TYPE_INIT ELSE PAYLOAD_TYPE_ADD]

\* C9: in a sign operation over totalCount >= 2 chunks in which every
\* response is NoErrors, the markers of the SIGN commands sent are INIT, then
\* ADD for each of the totalCount - 2 middle chunks, then LAST.
C9_MarkerSequence ==
    (Signing /\ pc = "done" /\ Len(chunks) >= 2 /\ AllResponsesNoErrors)
        => Markers = ExpectedMarkers(Len(chunks))

WordAt(buf, k) ==
    [hi |-> buf[4 * k] * 256 + buf[4 * k - 1], lo |-> buf[4 * k - 2] * 256 + buf[4 * k - 3]]
Wrapped(p) == [hi |-> (p.hi + 32768) % 65536, lo |-> p.lo]
WordsAsClaimed ==
    /\ fnOut.ok
    /\ Len(fnOut.val) = 20
    /\ \A k \in 1..3 : WordAt(fnOut.val, k) = Wrapped(fnIn[k])
    /\ \A k \in 4..5 : WordAt(fnOut.val, k) = fnIn[k]
NoOverflow == \A k \in 1..3 : fnIn[k].hi < 32768

\* C10 (as stated): for every 5-element path serializePath returns 20 bytes,
\* the little-endian words being 0x80000000 + path[0..2] wrapped to 32 bits
\* and path[3..4]; an index >= 0x80000000 wraps and is no error.
C10_WrapsNeverFails ==
    (op.kind = "serializePathv2" /\ pc = "done" /\ Len(fnIn) = 5) => WordsAsClaimed

\* C10 (amended): for every 5-element path whose first three indices are below
\* 0x80000000, serializePath returns 20 bytes whose little-endian words are
\* path[0..2] with bit 31 set and path[3..4] unchanged; with a first-three
\* index >= 0x80000000 the sum is above 0xFFFFFFFF and the write is rejected
\* with a RangeError wherever the Buffer checks its range (wraparound is what
\* is left when it does not).
C10_HardenedWords ==
    (op.kind = "serializePathv2" /\ pc = "done" /\ Len(fnIn) = 5)
        => /\ NoOverflow
              => /\ WordsAsClaimed
                 /\ \A k \in 1..3 : /\ WordAt(fnOut.val, k).hi >= 32768
                                    /\ WordAt(fnOut.val, k).hi - 32768 = fnIn[k].hi
           /\ ~NoOverflow
              => (fnOut.ok => WordsAsClaimed) /\ (~fnOut.ok => fnOut.err.cls = "RangeError")

C10_Witness ==
    /\ op.kind = "serializePathv2" /\ pc = "done" /\ Len(fnIn) = 5
    /\ fnIn = <<U32(44), U32(931), [hi |-> 32767, lo |-> 65535], U32(931), [hi |-> 65535, lo |-> 65535]>>
    /\ fnOut.ok
    /\ SubSeq(fnOut.val, 1, 8) = <<44, 0, 0, 128, 163, 3, 0, 128>>

(***************************************************************************)
(* C11                                                                     *)
(***************************************************************************)
HrpApplied == op.kind = "serializeHRP" /\ pc = "done"
HrpLen == Len(fnIn.str)
HrpRejected == fnIn.isNull \/ HrpLen < 3 \/ HrpLen > 83
IsAscii(str) == \A k \in 1..Len(str) : str[k] < 128
RaisesHRPInvalid(r) == ~r.ok /\ r.err.cls = "LedgerError" /\ r.err.code = HPRInvalid
HrpFramed == /\ fnOut.ok
             /\ Len(fnOut.val) = 1 + HrpLen
             /\ fnOut.val[1] = HrpLen

\* C11 (as amended): serializeHRP raises HRPInvalid when the HRP is null or
\* undefined or its length is below 3 or above 83; otherwise it returns
\* 1 + len bytes whose byte 0 is len, and whose bytes 1..len are the prefix
\* when the prefix is ASCII.  Lengths 3 and 83 are accepted, 2 and 84 rejected.
C11_SerializeHRP ==
    HrpApplied =>
        /\ HrpRejected => RaisesHRPInvalid(fnOut)
        /\ ~HrpRejected => HrpFramed
        /\ ~HrpRejected /\ IsAscii(fnIn.str)
              => SubSeq(fnOut.val, 2, 1 + HrpLen) = fnIn.str
        /\ ~fnIn.isNull /\ HrpLen \in {3, 83} => fnOut.ok
        /\ ~fnIn.isNull /\ HrpLen \in {2, 84} => RaisesHRPInvalid(fnOut)

C11_Witness ==
    /\ HrpApplied /\ ~fnIn.isNull /\ HrpLen = 83 /\ IsAscii(fnIn.str)
    /\ fnOut.ok /\ SubSeq(fnOut.val, 2, 84) = fnIn.str

\* C11 as stated: the bytes after the length byte are the prefix for every
\* HRP string of an accepted length
C11_AsStated ==
    HrpApplied /\ ~HrpRejected
        => HrpFramed /\ SubSeq(fnOut.val, 2, 1 + HrpLen) = fnIn.str

(***************************************************************************)
(* C12                                                                     *)
(***************************************************************************)
DeviceInfoAnswered(status) ==
    /\ op.kind = "deviceInfo" /\ pc = "done"
    /\ Len(trace) = 2 /\ IsRsp(2, "DEVICE_INFO") /\ RspStatus(2) = status

\* C12: when the device-info response ends with status 0x6E00, deviceInfo
\* returns a result that holds the return code and the dashboard-only message
\* and nothing else, whatever the body before the status is; it does not raise.
C12_DashboardOnlyResult ==
    DeviceInfoAnswered(28160) =>
        /\ outcome.kind = "result"
        /\ DOMAIN outcome.value = {"return_code", "error_message"}
        /\ outcome.value.return_code = 28160
        /\ outcome.value.error_message
             = "This command is only available in the Dashboard"

C12_Witness ==
    /\ DeviceInfoAnswered(28160)
    /\ RspPayload(2) = <<49, 16, 0, 4, 200>>
    /\ outcome.kind = "result"

(***************************************************************************)
(* C13                                                                     *)
(***************************************************************************)
\* the commands given to the transport once the chunk set is built, which is
\* when the response to the first version query has come
CmdsAfterChunks == { k \in Events : k > 2 /\ trace[k].ev = "cmd" }
SignReturnedAllNoErrors ==
    /\ Signing /\ pc = "done" /\ outcome.kind = "result"
    /\ \A k \in Events : IsRsp(k, "SIGN") => RspStatus(k) = NoErrors

\* C13 (as amended): each invocation of THORChainApp.signSendChunk sends two
\* commands, a GET_VERSION query and, once that is answered, one SIGN command;
\* so a sign over n chunks that all succeed sends exactly 2n commands after the
\* chunk set has been built, n of them SIGN commands.
C13_TwoCommandsPerChunk ==
    /\ Signing =>
          \A k \in SignCmds :
              k > 4 /\ IsCmd(k - 2, "GET_VERSION") /\ IsRsp(k - 1, "GET_VERSION")
    /\ SignReturnedAllNoErrors =>
          /\ Cardinality(SignCmds) = Len(chunks)
          /\ Cardinality(CmdsAfterChunks) = 2 * Len(chunks)

C13_Witness ==
    /\ SignReturnedAllNoErrors
    /\ Len(chunks) = 3
    /\ Cardinality(CmdsAfterChunks) = 6

\* C13 as stated: a sign over n chunks that all succeed sends exactly n
\* commands after the chunk set has been built
C13_OneCommandPerChunk ==
    SignReturnedAllNoErrors => Cardinality(CmdsAfterChunks) = Len(chunks)

(***************************************************************************)
(* C14                                                                     *)
(***************************************************************************)
SignCmdSeq == SelectSeq(trace, IsSignCmd)

\* C14: within one sign operation the k-th SIGN command carries chunk k - 1
\* (so the chunks go out in increasing index order from chunk 0, each at most
\* once, also after an error), and between two SIGN commands the response to
\* the earlier one has been received.
C14_ChunksInOrder ==
    Signing =>
        /\ Len(SignCmdSeq) <= Len(chunks)
        /\ \A k \in 1..Len(SignCmdSeq) : SignCmdSeq[k].data = chunks[k]
        /\ \A j \in SignCmds, k \in SignCmds :
               j < k => IsRsp(j + 1, "SIGN") /\ j + 1 < k

C14_Witness ==
    /\ Signing /\ pc = "done"
    /\ Len(SignCmdSeq) = 3 /\ Len(chunks) = 3
    /\ chunks[2] # chunks[3]
    /\ outcome.kind = "result"

(***************************************************************************)
(* C17                                                                     *)
(***************************************************************************)
VersionApplied == op.kind = "getVersion" /\ pc = "done"

\* the hex text of the unsigned big-endian integer a byte string holds
RECURSIVE StripZeros(_)
StripZeros(text) ==
    IF Len(text) > 1 /\ Head(text) = "0" THEN StripZeros(Tail(text)) ELSE text
UnsignedHex(bytes) ==
    StripZeros([k \in 1..(2 * Len(bytes)) |->
                   IF k % 2 = 1 THEN HexChar(bytes[(k + 1) \div 2] \div 16)
                                ELSE HexChar(bytes[k \div 2] % 16)])

\* C17: for a version response of total length >= 9 the decoded targetId is
\* the hex text of the unsigned big-endian 32-bit integer in response bytes
\* 5..8, also when byte 5 is 0x80 or more; for a shorter response it is the
\* text of 0.
C17_TargetIdUnsignedHex ==
    VersionApplied =>
        /\ fnOut.ok
        /\ fnOut.val.targetId = IF Len(fnIn) >= 9
                                THEN UnsignedHex(SubSeq(fnIn, 6, 9))
                                ELSE <<"0">>

\* what holds of the code: the claimed text when byte 5 is below 0x80
\* or the response is shorter than 9 bytes, and a text that starts with "-"
\* otherwise
TargetIdBit31Clear ==
    VersionApplied /\ (Len(fnIn) < 9 \/ fnIn[6] < 128) =>
        /\ fnOut.ok
        /\ fnOut.val.targetId = IF Len(fnIn) >= 9
                                THEN UnsignedHex(SubSeq(fnIn, 6, 9))
                                ELSE <<"0">>
TargetIdBit31Set ==
    VersionApplied /\ Len(fnIn) >= 9 /\ fnIn[6] >= 128 =>
        fnOut.ok /\ Head(fnOut.val.targetId) = "-"

(***************************************************************************)
(* C15                                                                     *)
(***************************************************************************)
\* the transport threw on the command answered at position k of the trace: it
\* failed, or the status of the response is not in the command's status list
TransportThrew(k) ==
    \/ trace[k].ev = "fail"
    \/ IsRsp(k, "GET_VERSION") /\ RspStatus(k) \notin VersionStatusList
    \/ IsRsp(k, "SIGN") /\ RspStatus(k) \notin SignStatusList

\* C15: if the transport throws on any command of a sign operation, a version
\* query or a chunk send, sign fails with an error, returns no result, and
\* sends no further command.
C15_TransportThrowEndsSign ==
    Signing =>
        \A k \in Events :
            TransportThrew(k)
                => k = Len(trace) /\ pc = "done" /\ outcome.kind = "error"

C15_Witness ==
    /\ Signing /\ pc = "done"
    /\ Cardinality(SignCmds) = 2
    /\ trace[Len(trace)].ev = "fail" /\ trace[Len(trace)].ins = "GET_VERSION"
    /\ outcome.kind = "error"

(***************************************************************************)
(* C16                                                                     *)
(***************************************************************************)
SignReturned == Signing /\ pc = "done" /\ outcome.kind = "result"

\* what a SIGN response decodes to: the status, its text (followed by the
\* ASCII payload for BadKeyHandle and DataIsInvalid), and the payload
DecodedMessage(k) ==
    IF RspStatus(k) \in {BadKeyHandle, DataIsInvalid}
    THEN MsgWith(errorCodeToString(RspStatus(k)), ToAscii(RspPayload(k)))
    ELSE Msg(errorCodeToString(RspStatus(k)))
ResultFromLastResponse ==
    LET k == Len(trace)
    IN  /\ IsRsp(k, "SIGN")
        /\ outcome.value.returnCode = RspStatus(k)
        /\ outcome.value.errorMessage = DecodedMessage(k)

\* C16 (as amended): whenever sign returns a result, its returnCode and
\* errorMessage are those decoded from the response to the last SIGN command
\* sent, also when the loop stopped early; its signature is the one decoded
\* from that response when the chunk set has two chunks or more, and null when
\* the chunk set has a single chunk (empty message).
C16_ResultFromLastResponse ==
    SignReturned =>
        /\ ResultFromLastResponse
        /\ outcome.value.signature = IF Len(chunks) = 1
                                     THEN <<>>
                                     ELSE <<RspPayload(Len(trace))>>

C16_Witness ==
    /\ SignReturned
    /\ Len(chunks) = 1
    /\ RspPayload(Len(trace)) = <<48, 197>>
    /\ outcome.value.signature = <<>>

\* C16 as stated: the signature too is the one decoded from the last response,
\* also when the chunk set has a single chunk
C16_SignatureFromLastResponse ==
    SignReturned =>
        /\ ResultFromLastResponse
        /\ outcome.value.signature = <<RspPayload(Len(trace))>>

(***************************************************************************)
(* C18                                                                     *)
(***************************************************************************)
SignEnded == pc = "done" /\ outcome.kind \in {"result", "error"}

\* C18: a sign operation of a message of length L never sends more than
\* 1 + ceil(L/150) SIGN commands, and, every transport call returning or
\* failing, it ends: it returns a result or raises an error.
C18_SignTerminates ==
    /\ [](Signing => Cardinality(SignCmds) <= 1 + CeilDiv(Len(op.message), CHUNK_SIZE))
    /\ (Signing ~> SignEnded)

C18_Witness ==
    /\ Signing /\ SignEnded
    /\ Len(op.message) = 2 * CHUNK_SIZE + 1
    /\ Cardinality(SignCmds) = 4
    /\ outcome.kind = "result"

====
